---- MODULE Spec2Model ----
(***************************************************************************)
(* bevy_hanabi, src/lib.rs: the WGSL float formatter (trait ToWgslFloat,   *)
(* implemented for f32 and f64) and the ParticleEffect component (new,     *)
(* spawner, derived Clone).                                                *)
(*                                                                         *)
(* Text is a sequence of one-character strings.  A float is a record       *)
(*   [ty, cls, neg, int, frac]                                             *)
(* where cls is "nan", "inf" or "fin"; a finite value is                   *)
(*   (-1)^neg * (int + SUM_{e \in frac} 2^-e),                             *)
(* i.e. frac is the set of binary places of the fraction that are set.     *)
(***************************************************************************)
EXTENDS Integers, Sequences, FiniteSets, TLC

VARIABLES
    x,        \* the receiver of to_float_string (self)
    s,        \* the local s of to_float_string: the fixed-precision rendering
    out,      \* the String the last call returned (NoText before any call)
    prev,     \* the String the call before the last returned, same receiver
    effects,  \* the ParticleEffect components, by slot (NoEffect: not built)
    store,    \* the Spawner values, by the place that owns them
    last      \* the last operation performed on the components

fmtVars == <<x, s, out, prev>>
peVars == <<effects, store, last>>
vars == <<x, s, out, prev, effects, store, last>>

(***************************************************************************)
(* Bounds of the model.                                                    *)
(***************************************************************************)
MaxInt == 2           \* integer parts 0..MaxInt,
MaxPow10 == 2         \* 10^k and 10^k - 1 for k in 1..MaxPow10
MaxFracBit == 17      \* sparse fractions: at most two set bits in 1..MaxFracBit

(***************************************************************************)
(* Program constants.                                                      *)
(***************************************************************************)
F32Precision == 6     \* format!("{:.6}", self)
F64Precision == 15    \* format!("{:.15}", self)
F32MantBits == 24     \* significand width of f32
F64MantBits == 53     \* significand width of f64

NoText == <<"<none>">>

Max(S) == CHOOSE m \in S : \A n \in S : n <= m
Min(S) == CHOOSE m \in S : \A n \in S : m <= n

RECURSIVE Pow10(_)
Pow10(k) == IF k = 0 THEN 1 ELSE 10 * Pow10(k - 1)

RECURSIVE BitLen(_)
BitLen(n) == IF n = 0 THEN 0 ELSE 1 + BitLen(n \div 2)

Zeros(n) == [i \in 1..n |-> 0]

(***************************************************************************)
(* The inputs: floats of both widths.                                      *)
(***************************************************************************)
MantBits(ty) == IF ty = "f32" THEN F32MantBits ELSE F64MantBits

\* A finite value is a float of width ty iff its set bits span at most the
\* significand width.
Representable(ty, int, frac) ==
    \/ frac = {}
    \/ int > 0 /\ BitLen(int) + Max(frac) <= MantBits(ty)
    \/ int = 0 /\ Max(frac) - Min(frac) + 1 <= MantBits(ty)

IntParts ==
    (0..MaxInt) \cup {Pow10(k) : k \in 1..MaxPow10}
                \cup {Pow10(k) - 1 : k \in 1..MaxPow10}

FracSets(ty) ==
    {{a, b} \ {0} : a, b \in 0..MaxFracBit} \cup {1..r : r \in 1..MantBits(ty)}

Floats(ty) ==
    {[ty |-> ty, cls |-> "nan", neg |-> FALSE, int |-> 0, frac |-> {}]}
    \cup {[ty |-> ty, cls |-> "inf", neg |-> n, int |-> 0, frac |-> {}] :
            n \in BOOLEAN}
    \cup {[ty |-> ty, cls |-> "fin", neg |-> f[1], int |-> f[2], frac |-> f[3]] :
            f \in {g \in BOOLEAN \X IntParts \X FracSets(ty) :
                     Representable(ty, g[2], g[3])}}

(***************************************************************************)
(* format!("{:.N}", self): the exact decimal expansion of the binary       *)
(* value, rounded to N places (ties to even), always with the separator.   *)
(***************************************************************************)
Digits == <<"0", "1", "2", "3", "4", "5", "6", "7", "8", "9">>

DigitChar(d) == Digits[d + 1]

Chars(ds) == [i \in 1..Len(ds) |-> DigitChar(ds[i])]

RECURSIVE NatToDigits(_)
NatToDigits(n) ==
    IF n < 10 THEN <<n>> ELSE Append(NatToDigits(n \div 10), n % 10)

\* The decimal places of (b + 0.ds) / 2, one place more than ds: long
\* division by two, the remainder of each place carried into the next.
RECURSIVE HalveFrom(_, _, _)
HalveFrom(ds, i, carry) ==
    IF i > Len(ds)
    THEN <<carry * 5>>
    ELSE <<(carry * 10 + ds[i]) \div 2>>
           \o HalveFrom(ds, i + 1, (carry * 10 + ds[i]) % 2)

Halve(ds, b) == HalveFrom(ds, 1, b)

\* The exact decimal places of SUM_{e \in frac} 2^-e, n = Max(frac) of them,
\* by Horner's rule from the last set bit up: acc holds the places of the
\* bits below place n - Len(acc), and each halving adds one place.
RECURSIVE BitsToDecimal(_, _, _)
BitsToDecimal(frac, n, acc) ==
    IF Len(acc) >= n
    THEN acc
    ELSE BitsToDecimal(frac, n,
           Halve(acc, IF (n - Len(acc)) \in frac THEN 1 ELSE 0))

FracDecimal(frac) ==
    IF frac = {} THEN <<>> ELSE BitsToDecimal(frac, Max(frac), <<>>)

\* The dropped places against one half of the last kept place.
HalfCompare(rest) ==
    IF rest = <<>> \/ rest[1] < 5 THEN "lt"
    ELSE IF rest[1] > 5 \/ \E i \in 2..Len(rest) : rest[i] # 0 THEN "gt"
    ELSE "eq"

\* Mutant of RoundsUp: the dropped places are cut off, never rounded.
RoundsUp_truncating(kept, rest) == FALSE

RoundsUp(kept, rest) ==
    \/ HalfCompare(rest) = "gt"
    \/ HalfCompare(rest) = "eq" /\ kept[Len(kept)] % 2 = 1

\* ds plus one unit in its last place; carry is the overflow into the
\* integer part.
RECURSIVE IncFrom(_, _)
IncFrom(ds, i) ==
    IF i = 0 THEN [digits |-> ds, carry |-> 1]
    ELSE IF ds[i] < 9 THEN [digits |-> [ds EXCEPT ![i] = @ + 1], carry |-> 0]
    ELSE IncFrom([ds EXCEPT ![i] = 0], i - 1)

IncDigits(ds) == IncFrom(ds, Len(ds))

SignText(v) == IF v.neg THEN <<"-">> ELSE <<>>

format_fixed(v, prec) ==
    CASE v.cls = "nan" -> <<"N", "a", "N">>
      [] v.cls = "inf" -> SignText(v) \o <<"i", "n", "f">>
      [] OTHER ->
           LET exact == FracDecimal(v.frac)
               kept == IF Len(exact) <= prec
                       THEN exact \o Zeros(prec - Len(exact))
                       ELSE SubSeq(exact, 1, prec)
               rest == SubSeq(exact, prec + 1, Len(exact))
               r == IF RoundsUp(kept, rest)
                    THEN IncDigits(kept)
                    ELSE [digits |-> kept, carry |-> 0]
           IN  SignText(v) \o Chars(NatToDigits(v.int + r.carry))
                 \o <<".">> \o Chars(r.digits)

(***************************************************************************)
(* str::trim_end_matches(pat) for a one-character pattern: the text        *)
(* without every trailing repetition of pat.                               *)
(***************************************************************************)
\* Mutant of trim_end_matches: trim_matches, which trims both ends.
RECURSIVE trim_matches(_, _)
trim_matches(t, pat) ==
    IF Len(t) > 0 /\ t[Len(t)] = pat
    THEN trim_matches(SubSeq(t, 1, Len(t) - 1), pat)
    ELSE IF Len(t) > 0 /\ t[1] = pat
    THEN trim_matches(Tail(t), pat)
    ELSE t

\* Mutant of trim_end_matches: strip_suffix, which removes one match only.
strip_one_suffix(t, pat) ==
    IF Len(t) > 0 /\ t[Len(t)] = pat THEN SubSeq(t, 1, Len(t) - 1) ELSE t

\* Mutant of trim_end_matches: the separator is trimmed like the pattern.
RECURSIVE trim_end_matches_or_separator(_, _)
trim_end_matches_or_separator(t, pat) ==
    IF Len(t) > 0 /\ t[Len(t)] \in {pat, "."}
    THEN trim_end_matches_or_separator(SubSeq(t, 1, Len(t) - 1), pat)
    ELSE t

RECURSIVE trim_end_matches(_, _)
trim_end_matches(t, pat) ==
    IF Len(t) > 0 /\ t[Len(t)] = pat
    THEN trim_end_matches(SubSeq(t, 1, Len(t) - 1), pat)
    ELSE t

(***************************************************************************)
(* impl ToWgslFloat for f32 / for f64.                                     *)
(***************************************************************************)
to_float_string_f32(v) == trim_end_matches(format_fixed(v, F32Precision), "0")

to_float_string_f64(v) == trim_end_matches(format_fixed(v, F64Precision), "0")

(***************************************************************************)
(* The formatter as a state machine: a receiver is drawn, and each call    *)
(* of to_float_string on it records the local s and the returned String.   *)
(***************************************************************************)
InitFormatter ==
    /\ x \in Floats("f32") \cup Floats("f64")
    /\ s = NoText
    /\ out = NoText
    /\ prev = NoText

\* <f32 as ToWgslFloat>::to_float_string(&self)
ToFloatStringF32 ==
    /\ x.ty = "f32"
    /\ s' = format_fixed(x, F32Precision)
    /\ out' = to_float_string_f32(x)
    /\ prev' = out
    /\ x' = x

\* <f64 as ToWgslFloat>::to_float_string(&self)
ToFloatStringF64 ==
    /\ x.ty = "f64"
    /\ s' = format_fixed(x, F64Precision)
    /\ out' = to_float_string_f64(x)
    /\ prev' = out
    /\ x' = x

(***************************************************************************)
(* ParticleEffect.  A Spawner value lives in exactly one place: the        *)
(* asset that owns the default (<<"asset", h>>) or the spawner field of    *)
(* the component in slot i (<<"effect", i>>).  Option<Spawner> is the      *)
(* empty sequence (None) or a one-element sequence naming the place of     *)
(* the value the field holds (Some).                                       *)
(***************************************************************************)
NumSlots == 2          \* component slots 1..NumSlots
NumAssets == 2         \* asset handles 1..NumAssets
MaxSpawnerValue == 1   \* Spawner values 0..MaxSpawnerValue

INVALID == 0           \* EffectCacheId::INVALID

Slots == 1..NumSlots
Handles == 1..NumAssets
SpawnerValues == 0..MaxSpawnerValue

None == <<>>
Some(p) == <<p>>

AssetPlace(h) == <<"asset", h>>
FieldPlace(i) == <<"effect", i>>

\* Spawner::clone(): an equal value, stored at the place dst.
CloneInto(st, dst, src) ==
    IF dst \in DOMAIN st
    THEN [st EXCEPT ![dst] = st[src]]
    ELSE st @@ (dst :> st[src])

NoOp == [op |-> "none", slot |-> 0, handle |-> 0, arg |-> None, fresh |-> FALSE]

InitEffects ==
    /\ effects = <<>>
    /\ store = [p \in {AssetPlace(h) : h \in Handles} |-> p[2] % (MaxSpawnerValue + 1)]
    /\ last = NoOp

\* Mutant of ParticleEffect_new: the cache id starts as an allocated id.
ParticleEffect_new_allocated(i, handle) ==
    /\ i \notin DOMAIN effects
    /\ effects' = effects @@ (i :> [handle |-> handle,
                                    effect |-> INVALID + 1,
                                    spawner |-> None])
    /\ store' = store
    /\ last' = [NoOp EXCEPT !.op = "new", !.slot = i, !.handle = handle]

\* ParticleEffect::new(handle), built into the free slot i.
ParticleEffect_new(i, handle) ==
    /\ i \notin DOMAIN effects
    /\ effects' = effects @@ (i :> [handle |-> handle,
                                    effect |-> INVALID,
                                    spawner |-> None])
    /\ store' = store
    /\ last' = [NoOp EXCEPT !.op = "new", !.slot = i, !.handle = handle]

\* Mutant of ParticleEffect_spawner: the override is created from
\* Spawner::default() (value 0) instead of a clone of the argument.
ParticleEffect_spawner_from_default(i, a) ==
    /\ i \in DOMAIN effects
    /\ a \in DOMAIN store
    /\ effects[i].spawner # Some(a)
    /\ IF effects[i].spawner = None
       THEN /\ effects' = [effects EXCEPT ![i].spawner = Some(FieldPlace(i))]
            /\ store' = store @@ (FieldPlace(i) :> 0)
       ELSE UNCHANGED <<effects, store>>
    /\ last' = [NoOp EXCEPT !.op = "spawner", !.slot = i, !.arg = Some(a),
                            !.fresh = (effects[i].spawner = None)]

\* Mutant of ParticleEffect_spawner: the field refers to the Spawner passed
\* in instead of holding a clone of it.
ParticleEffect_spawner_shared(i, a) ==
    /\ i \in DOMAIN effects
    /\ a \in DOMAIN store
    /\ effects[i].spawner # Some(a)
    /\ IF effects[i].spawner = None
       THEN /\ effects' = [effects EXCEPT ![i].spawner = Some(a)]
            /\ store' = store
       ELSE UNCHANGED <<effects, store>>
    /\ last' = [NoOp EXCEPT !.op = "spawner", !.slot = i, !.arg = Some(a),
                            !.fresh = (effects[i].spawner = None)]

\* Mutant of ParticleEffect_spawner: no is_none() test, every call stores a
\* clone of the argument.
ParticleEffect_spawner_always_clones(i, a) ==
    /\ i \in DOMAIN effects
    /\ a \in DOMAIN store
    /\ effects[i].spawner # Some(a)
    /\ effects' = [effects EXCEPT ![i].spawner = Some(FieldPlace(i))]
    /\ store' = CloneInto(store, FieldPlace(i), a)
    /\ last' = [NoOp EXCEPT !.op = "spawner", !.slot = i, !.arg = Some(a),
                            !.fresh = (effects[i].spawner = None)]

\* Mutant of ParticleEffect_spawner: creating the override rebuilds the
\* component with ParticleEffect::new, which resets the cache id.
ParticleEffect_spawner_rebuilds(i, a) ==
    /\ i \in DOMAIN effects
    /\ a \in DOMAIN store
    /\ effects[i].spawner # Some(a)
    /\ effects' = [effects EXCEPT ![i].spawner = Some(FieldPlace(i)),
                                  ![i].effect = INVALID]
    /\ store' = IF effects[i].spawner = None
                THEN CloneInto(store, FieldPlace(i), a)
                ELSE store
    /\ last' = [NoOp EXCEPT !.op = "spawner", !.slot = i, !.arg = Some(a),
                            !.fresh = (effects[i].spawner = None)]

\* ParticleEffect::spawner(&mut self, spawner: &Spawner) on the component in
\* slot i, with the Spawner at place a passed in.  The returned reference is
\* to the place effects'[i].spawner names.
ParticleEffect_spawner(i, a) ==
    /\ i \in DOMAIN effects
    /\ a \in DOMAIN store
    /\ effects[i].spawner # Some(a)
    /\ IF effects[i].spawner = None
       THEN /\ effects' = [effects EXCEPT ![i].spawner = Some(FieldPlace(i))]
            /\ store' = CloneInto(store, FieldPlace(i), a)
       ELSE UNCHANGED <<effects, store>>
    /\ last' = [NoOp EXCEPT !.op = "spawner", !.slot = i, !.arg = Some(a),
                            !.fresh = (effects[i].spawner = None)]

\* The place the reference returned by the last spawner() call points to,
\* while that borrow is alive.
Returned ==
    IF last.op \in {"spawner", "tune"}
    THEN effects[last.slot].spawner
    ELSE None

\* The caller writes the value v through the returned &mut Spawner.
TuneReturned(v) ==
    /\ Returned # None
    /\ store' = [store EXCEPT ![Returned[1]] = v]
    /\ effects' = effects
    /\ last' = [NoOp EXCEPT !.op = "tune", !.slot = last.slot]

\* #[derive(Clone)]: the component in slot i cloned into the free slot j,
\* field by field.
ParticleEffect_clone(i, j) ==
    /\ i \in DOMAIN effects
    /\ j \notin DOMAIN effects
    /\ IF effects[i].spawner = None
       THEN /\ effects' = effects @@ (j :> effects[i])
            /\ store' = store
       ELSE /\ effects' = effects @@
                 (j :> [effects[i] EXCEPT !.spawner = Some(FieldPlace(j))])
            /\ store' = CloneInto(store, FieldPlace(j), effects[i].spawner[1])
    /\ last' = [NoOp EXCEPT !.op = "clone", !.slot = j]

\* The effect cache allocates storage for the component in slot i and
\* records the id of the allocation, one id per allocation: the id i.
CacheAllocates(i) ==
    /\ i \in DOMAIN effects
    /\ effects[i].effect = INVALID
    /\ effects' = [effects EXCEPT ![i].effect = i]
    /\ store' = store
    /\ last' = [NoOp EXCEPT !.op = "allocate", !.slot = i]

(***************************************************************************)
(* Specifications.                                                         *)
(***************************************************************************)
Init == InitFormatter /\ InitEffects

Next ==
    \/ ToFloatStringF32 /\ UNCHANGED peVars
    \/ ToFloatStringF64 /\ UNCHANGED peVars

Spec == Init /\ [][Next]_vars

InitPE ==
    /\ x = [ty |-> "f32", cls |-> "fin", neg |-> FALSE, int |-> 0, frac |-> {}]
    /\ s = NoText
    /\ out = NoText
    /\ prev = NoText
    /\ InitEffects

NextPE ==
    \/ \E i \in Slots, h \in Handles : ParticleEffect_new(i, h) /\ UNCHANGED fmtVars
    \/ \E i \in Slots, a \in DOMAIN store :
         ParticleEffect_spawner(i, a) /\ UNCHANGED fmtVars
    \/ \E v \in SpawnerValues : TuneReturned(v) /\ UNCHANGED fmtVars
    \/ \E i \in Slots, j \in Slots : ParticleEffect_clone(i, j) /\ UNCHANGED fmtVars
    \/ \E i \in Slots : CacheAllocates(i) /\ UNCHANGED fmtVars

SpecPE == InitPE /\ [][NextPE]_vars

(***************************************************************************)
(* Properties of the formatter (checked under Spec).                       *)
(***************************************************************************)
Called == out # NoText

IsFinite == x.cls = "fin"

Finite(ty, neg, int, frac) ==
    [ty |-> ty, cls |-> "fin", neg |-> neg, int |-> int, frac |-> frac]

HasSeparator(t) == \E i \in 1..Len(t) : t[i] = "."

SepIndex(t) == Min({i \in 1..Len(t) : t[i] = "."})

NonZeroDigits == {Digits[d + 1] : d \in 1..9}

\* Reading a returned text back: sign, integer part, decimal places.
Unsigned(t) == IF Len(t) > 0 /\ t[1] = "-" THEN Tail(t) ELSE t

CharDigit(c) == CHOOSE d \in 0..9 : Digits[d + 1] = c

IntChars(t) == SubSeq(Unsigned(t), 1, SepIndex(Unsigned(t)) - 1)

FracChars(t) ==
    SubSeq(Unsigned(t), SepIndex(Unsigned(t)) + 1, Len(Unsigned(t)))

RECURSIVE DigitsToNat(_)
DigitsToNat(cs) ==
    IF cs = <<>> THEN 0
    ELSE 10 * DigitsToNat(SubSeq(cs, 1, Len(cs) - 1)) + CharDigit(cs[Len(cs)])

PadTo(ds, n) == IF Len(ds) >= n THEN ds ELSE ds \o Zeros(n - Len(ds))

ReadFrac(t, n) == PadTo([i \in 1..Len(FracChars(t)) |-> CharDigit(FracChars(t)[i])], n)

\* b is a plus one unit in the last place, both of the same length.
IsSuccessor(a, b) ==
    /\ Len(a) = Len(b)
    /\ \E k \in 1..Len(a) :
         /\ a[k] < 9 /\ b[k] = a[k] + 1
         /\ \A i \in 1..(k - 1) : a[i] = b[i]
         /\ \A i \in (k + 1)..Len(a) : a[i] = 9 /\ b[i] = 0

ClaimedPlaces == IF x.ty = "f32" THEN 6 ELSE 15

\* C1 (as claimed): for every floating-point input, of either width, the text
\* returned by to_float_string contains the fractional separator '.'.
C1_AlwaysHasSeparator == Called => HasSeparator(out)

\* C4: for every input whose fixed-precision rendering s contains '.', the
\* returned text is s with only '0' characters after the separator removed:
\* it is a prefix of s that reaches the separator, and every character of s
\* beyond it is '0'; the integer part is preserved exactly.
C4_TrimKeepsSeparatorAndIntegerPart ==
    (Called /\ HasSeparator(s)) =>
        /\ SepIndex(s) <= Len(out)
        /\ Len(out) <= Len(s)
        /\ \A i \in 1..Len(out) : out[i] = s[i]
        /\ \A i \in (Len(out) + 1)..Len(s) : s[i] = "0"

\* 100.0 (f64) is rendered "100.000000000000000" and returned as "100.".
C4_Witness ==
    /\ x = Finite("f64", FALSE, 100, {})
    /\ Len(s) = 19
    /\ out = <<"1", "0", "0", ".">>

\* C7: for every finite input the last character of the returned text is the
\* separator or a non-zero digit, never '0'.
C7_NoTrailingZero ==
    (Called /\ IsFinite) =>
        /\ Len(out) > 0
        /\ out[Len(out)] \in {"."} \cup NonZeroDigits

\* 0.25 (f32) is returned as "0.25".
C7_Witness ==
    /\ x = Finite("f32", FALSE, 0, {2})
    /\ out = <<"0", ".", "2", "5">>

\* C8: the returned text of a finite f32 has at most 6 places after the
\* separator, of a finite f64 at most 15; read back, it is the input rounded
\* to that many places (within half a unit of the last place), its trailing
\* zeros removed; an input with no more places than that reads back exactly.
C8_FixedPrecisionRounding ==
    (Called /\ IsFinite) =>
        LET n == ClaimedPlaces
            exact == FracDecimal(x.frac)
            cut == SubSeq(PadTo(exact, n), 1, n)
            rest == SubSeq(exact, n + 1, Len(exact))
            atMostHalf == rest = <<>> \/ rest[1] < 5
                          \/ (rest[1] = 5 /\ \A i \in 2..Len(rest) : rest[i] = 0)
            atLeastHalf == rest # <<>> /\ rest[1] >= 5
            readInt == DigitsToNat(IntChars(out))
            readFrac == ReadFrac(out, n)
        IN  /\ HasSeparator(out)
            /\ Len(FracChars(out)) <= n
            /\ (out[1] = "-") <=> x.neg
            /\ FracChars(out) = <<>> \/ FracChars(out)[Len(FracChars(out))] # "0"
            /\ \/ readInt = x.int /\ readFrac = cut /\ atMostHalf
               \/ readInt = x.int /\ IsSuccessor(cut, readFrac) /\ atLeastHalf
               \/ /\ readInt = x.int + 1
                  /\ \A i \in 1..n : cut[i] = 9 /\ readFrac[i] = 0
                  /\ atLeastHalf
            /\ Len(exact) <= n => (readInt = x.int /\ readFrac = PadTo(exact, n))

\* 3/128 = 0.0234375 (f32) is rounded in the seventh place: "0.023438".
C8_Witness ==
    /\ x = Finite("f32", FALSE, 0, {6, 7})
    /\ out = <<"0", ".", "0", "2", "3", "4", "3", "8">>

\* C9: for every input, finite or not (NaN, the infinities, negative zero),
\* to_float_string returns a non-empty text, and a second call on the same
\* input returns the same text as the first.
C9_TotalNonEmptyRepeatable ==
    Called =>
        /\ Len(out) > 0
        /\ prev # NoText => prev = out
        /\ x.cls = "nan" => out = <<"N", "a", "N">>
        /\ x.cls = "inf" => out = SignText(x) \o <<"i", "n", "f">>

\* The negative infinity of f32, formatted twice: "-inf" both times.
C9_Witness ==
    /\ x.cls = "inf" /\ x.neg /\ x.ty = "f32"
    /\ out = <<"-", "i", "n", "f">>
    /\ prev = out

(***************************************************************************)
(* Properties of ParticleEffect (checked under SpecPE).                    *)
(***************************************************************************)
\* The value of the override of the component in slot i, as an Option.
Override(i) ==
    IF effects[i].spawner = None THEN None ELSE Some(store[effects[i].spawner[1]])

\* C2: a component just built by new has no override; a spawner(s) call on a
\* component without an override stores, in the component's own field, a
\* copy equal to s, and returns a reference to that stored copy.
C2_LazyOverride ==
    [][ /\ last'.op = "new" => effects'[last'.slot].spawner = None
        /\ (last'.op = "spawner" /\ effects[last'.slot].spawner = None) =>
             /\ effects'[last'.slot].spawner = Some(FieldPlace(last'.slot))
             /\ store'[FieldPlace(last'.slot)] = store[last'.arg[1]]
             /\ Returned' = Some(FieldPlace(last'.slot))
      ]_vars

\* The first spawner() call on slot 1, with the default of asset 1 passed in.
C2_Witness ==
    /\ last.op = "spawner" /\ last.fresh /\ last.slot = 1
    /\ last.arg = Some(AssetPlace(1))
    /\ Override(1) = Some(store[AssetPlace(1)])

\* C3: no step changes the default Spawner of an asset; a spawner() call on a
\* component, or a write through the reference it returned, changes no other
\* component and no other component's override; and an override is held only
\* in the field of the one component that owns it.
C3_OverrideNeverShared ==
    [][ /\ \A h \in Handles : store'[AssetPlace(h)] = store[AssetPlace(h)]
        /\ last'.op \in {"spawner", "tune"} =>
             \A j \in DOMAIN effects \ {last'.slot} :
                effects'[j] = effects[j] /\ Override(j)' = Override(j)
        /\ \A i \in DOMAIN effects' :
             effects'[i].spawner \in {None, Some(FieldPlace(i))}
      ]_vars

\* An override is tuned away from the asset default while another component
\* holds an override of a different value.
C3_Witness ==
    /\ last.op = "tune"
    /\ Override(last.slot) # Some(store[AssetPlace(effects[last.slot].handle)])
    /\ \E j \in DOMAIN effects \ {last.slot} :
         Override(j) # None /\ Override(j) # Override(last.slot)

\* C5: a component just built by new(handle) holds that handle, the INVALID
\* cache id and no override.
C5_NewIsUnallocated ==
    last.op = "new" =>
        effects[last.slot] =
            [handle |-> last.handle, effect |-> INVALID, spawner |-> None]

\* A second component is built after the first was allocated and overridden.
C5_Witness ==
    /\ last.op = "new" /\ last.slot = 2
    /\ 1 \in DOMAIN effects
    /\ effects[1].effect # INVALID /\ effects[1].spawner # None

\* C6: a spawner(s') call on a component that has an override leaves the
\* component and every Spawner value unchanged, whatever s' is, and returns
\* a reference to the existing override.
C6_GetOrCreate ==
    [][ (last'.op = "spawner" /\ effects[last'.slot].spawner # None) =>
          /\ effects' = effects
          /\ store' = store
          /\ Returned' = effects[last'.slot].spawner
      ]_vars

\* A later call passes a Spawner that differs from the override it finds.
C6_Witness ==
    /\ last.op = "spawner" /\ ~last.fresh
    /\ Override(last.slot) # None
    /\ Override(last.slot) # Some(store[last.arg[1]])

\* C10: a spawner() call leaves the handle and the cache id of every
\* component unchanged, and an override, once present, is never removed, and
\* never replaced by a spawner() call.
C10_SpawnerKeepsHandleIdOverride ==
    [][ \A i \in DOMAIN effects :
          /\ i \in DOMAIN effects'
          /\ last'.op = "spawner" =>
               /\ effects'[i].handle = effects[i].handle
               /\ effects'[i].effect = effects[i].effect
          /\ effects[i].spawner # None =>
               /\ effects'[i].spawner = effects[i].spawner
               /\ last'.op = "spawner" => Override(i)' = Override(i)
      ]_vars

\* spawner() is called on a component whose cache id has been set and whose
\* override exists.
C10_Witness ==
    /\ last.op = "spawner" /\ ~last.fresh
    /\ effects[last.slot].effect # INVALID
    /\ effects[last.slot].spawner # None

====
